---- MODULE Spec2Model ----
(***************************************************************************)
(* Model of package github.com/stockparfait/errors (errors.go).            *)
(*                                                                         *)
(* An error value is a chain, written as the sequence of its nodes,        *)
(* outermost first: the head is the node itself and the tail is the error  *)
(* it wraps (field orig), so the nil error is the empty sequence.  A node  *)
(* of type *annotatedError carries the id of its allocation (pointer       *)
(* identity) and its message curr.  A string is the sequence of its lines  *)
(* (joining with "\n" is concatenation); a line is a record of the pieces  *)
(* the format verbs put together.  A goroutine's call stack is a sequence  *)
(* of frames, outermost first.                                             *)
(***************************************************************************)
EXTENDS Integers, Sequences, FiniteSets, TLC

\* ------------------------------------------------------------- bounds
\* User calls on top of the goroutine's base stack.
MaxDepth == 3
\* Nodes the user code allocates in one run.
MaxNodes == 2
\* Largest explicit skip passed to ReasonStack / AnnotateStack.
MaxSkip == 3
\* Harness frames between testing.tRunner and the test's own code.
ConveyDepth == 14
\* Longest frame list handed to trimFrames directly.
MaxFrames == 4

\* pc := make([]uintptr, 20)
PcLen == 20

\* ------------------------------------------------------------- frames
Fr(file, line, fn) == [file |-> file, line |-> line, fn |-> fn]

Nil == <<>>

Reverse(s) == [i \in 1..Len(s) |-> s[Len(s) + 1 - i]]

\* Frames of the package's own functions, at the line of the call they make.
FrReason == Fr("errors.go", 86, "errors.Reason")
FrAnnotate == Fr("errors.go", 92, "errors.Annotate")
FrReasonStack == Fr("errors.go", 70, "errors.ReasonStack")
FrAnnotateStack == Fr("errors.go", 80, "errors.AnnotateStack")
FrReasonPanic == Fr("errors.go", 99, "errors.ReasonPanic")
Frannotate == Fr("errors.go", 59, "errors.annotate")
FrFromPanic == Fr("errors.go", 134, "errors.FromPanic")
FrFromPanicRaise == Fr("errors.go", 165, "errors.FromPanic")

\* Frames of the runtime.
FrCallers == Fr("extern.go", 0, "runtime.Callers")
FrGopanic == Fr("panic.go", 0, "runtime.gopanic")
FrMain == Fr("proc.go", 0, "runtime.main")
FrGoexit == Fr("asm.s", 0, "runtime.goexit")

\* The functions of the test program: fnA defers the recovery, calls fnB;
\* fnB calls fnC; fnC raises.
UserFns == {"fnA", "fnB", "fnC"}
\* The lines the test expects (errors_test.go:40, :45, :51).
UserLine(f) == CASE f = "fnA" -> 40 [] f = "fnB" -> 45 [] OTHER -> 51
UserFrame(f) == Fr("errors_test.go", UserLine(f), f)
\* fnA's deferred closure, func() { err = FromPanic(recover()) }.
FrClosure == Fr("errors_test.go", 39, "fnA.func1")
Defers(f) == f = "fnA"
\* The calls of the program: the goroutine's base calls fnA, fnA calls fnB,
\* fnB calls fnC, and fnC calls no user function.
Calls(fr, f) ==
  CASE fr.fn = "fnA" -> f = "fnB"
    [] fr.fn = "fnB" -> f = "fnC"
    [] fr.fn = "fnC" -> FALSE
    [] OTHER -> f = "fnA"

\* The goroutines the program runs on.
MainBase == <<FrGoexit, FrMain, Fr("main.go", 1, "main.main")>>
TestBase == <<FrGoexit, Fr("testing.go", 0, "testing.tRunner")>>
              \o [i \in 1..ConveyDepth |-> Fr("convey.go", i, "convey")]
GoBase == <<FrGoexit>>
Bases == {MainBase, TestBase, GoBase}

\* runtime.Caller(skip), called by the innermost frame of st: skip 0 is that
\* caller itself.
Caller(st, skip) ==
  IF skip >= 0 /\ skip < Len(st)
  THEN [ok |-> TRUE, frame |-> st[Len(st) - skip]]
  ELSE [ok |-> FALSE, frame |-> Fr("", 0, "")]

\* runtime.Callers(skip, pc) with len(pc) = max followed by CallersFrames:
\* st ends with the frame of Callers itself, which is skip 0; the frames come
\* innermost first.
Callers(st, skip, max) ==
  LET all == Reverse(st)
      rest == IF skip >= Len(all) THEN <<>> ELSE SubSeq(all, skip + 1, Len(all))
  IN IF Len(rest) > max THEN SubSeq(rest, 1, max) ELSE rest

\* ------------------------------------------------------------- strings
\* The surplus arguments (all strings) as fmt lists them: type=value, joined
\* by ", ".
RECURSIVE ExtraArgs(_)
ExtraArgs(args) ==
  IF Len(args) = 1 THEN <<"string=", Head(args)>>
  ELSE <<"string=", Head(args), ", ">> \o ExtraArgs(Tail(args))

\* fmt.Sprintf over a format of literal pieces and "%s" verbs.
RECURSIVE Sprintf(_, _)
Sprintf(s, args) ==
  IF s = <<>>
  THEN IF args = <<>> THEN <<>> ELSE <<"%!(EXTRA ">> \o ExtraArgs(args) \o <<")">>
  ELSE IF Head(s) = "%s"
       THEN IF args = <<>>
            THEN <<"%!s(MISSING)">> \o Sprintf(Tail(s), args)
            ELSE <<Head(args)>> \o Sprintf(Tail(s), Tail(args))
       ELSE <<Head(s)>> \o Sprintf(Tail(s), args)

Line(tag, file, line, fn, text) ==
  [tag |-> tag, file |-> file, line |-> line, fn |-> fn, text |-> text]

\* ------------------------------------------------------------- chain nodes
\* &annotatedError{orig: orig, curr: curr}, allocated as number id.
annotatedError(orig, curr, id) ==
  <<[kind |-> "annotatedError", id |-> id, curr |-> curr]>> \o orig

\* A value of type myError (an error that is not a chain node).
myError(v) == <<[kind |-> "myError", id |-> 0, curr |-> <<Line("", "", 0, "", <<v>>)>>]>>
\* A value of type string (a panic payload that is not an error).
StringValue(v) == <<[kind |-> "string", id |-> 0, curr |-> <<Line("", "", 0, "", <<v>>)>>]>>

IsAnnotatedError(p) == p # Nil /\ Head(p).kind = "annotatedError"

\* (e annotatedError) Unwrap(); a myError has no Unwrap method.
UnwrapNone(e) == Nil
Unwrap(e) == IF IsAnnotatedError(e) THEN Tail(e) ELSE Nil

\* (e annotatedError) Error(), and myError's Error().
RECURSIVE ErrorOldestFirst(_)
ErrorOldestFirst(e) ==
  IF ~IsAnnotatedError(e) \/ Tail(e) = Nil
  THEN Head(e).curr
  ELSE ErrorOldestFirst(Tail(e)) \o Head(e).curr
RECURSIVE Error(_)
Error(e) ==
  IF ~IsAnnotatedError(e) THEN Head(e).curr
  ELSE IF Tail(e) = Nil THEN Head(e).curr
       ELSE Head(e).curr \o Error(Tail(e))

\* ------------------------------------------------------------- builders
\* annotate(stack, s, args), called with go stack st (ending with the frame
\* of ReasonStack or AnnotateStack).
annotateFrame2(st, stack, s, args) ==
  LET c == Caller(st \o <<Frannotate>>, 2)
  IN <<Line("ERROR", IF c.ok THEN c.frame.file ELSE "???",
            IF c.ok THEN c.frame.line ELSE 0,
            IF c.ok THEN c.frame.fn ELSE "", Sprintf(s, args))>>
annotate(st, stack, s, args) ==
  LET c == Caller(st \o <<Frannotate>>, stack)
  IN <<Line("ERROR", IF c.ok THEN c.frame.file ELSE "???",
            IF c.ok THEN c.frame.line ELSE 0,
            IF c.ok THEN c.frame.fn ELSE "", Sprintf(s, args))>>

\* Each builder takes the go stack st of its caller (ending with the caller's
\* frame) and the id of the next allocation.
ReasonStack(st, stack, s, args, id) ==
  annotatedError(Nil, annotate(st \o <<FrReasonStack>>, stack, s, args), id)

AnnotateStackNoNilCheck(st, e, stack, s, args, id) ==
  annotatedError(e, annotate(st \o <<FrAnnotateStack>>, stack, s, args), id)
AnnotateStack(st, e, stack, s, args, id) ==
  IF e = Nil THEN Nil
  ELSE annotatedError(e, annotate(st \o <<FrAnnotateStack>>, stack, s, args), id)

Reason(st, s, args, id) == ReasonStack(st \o <<FrReason>>, 3, s, args, id)

Annotate(st, e, s, args, id) == AnnotateStack(st \o <<FrAnnotate>>, e, 3, s, args, id)

\* The payload ReasonPanic panics with.
ReasonPanic(st, s, args, id) == ReasonStack(st \o <<FrReasonPanic>>, 3, s, args, id)

\* ------------------------------------------------------------- panic bridge
Min(S) == CHOOSE x \in S : \A y \in S : x <= y

trimFramesKeepMarker(frames) ==
  LET I == {i \in 1..Len(frames) : frames[i].fn = "runtime.gopanic"}
      f1 == IF I = {} THEN frames ELSE SubSeq(frames, Min(I), Len(frames))
      J == {i \in 1..Len(f1) : f1[i].fn = "runtime.main"}
  IN IF J = {} THEN f1 ELSE SubSeq(f1, 1, Min(J) - 1)
trimFramesLastMain(frames) ==
  LET I == {i \in 1..Len(frames) : frames[i].fn = "runtime.gopanic"}
      f1 == IF I = {} THEN frames ELSE SubSeq(frames, Min(I) + 1, Len(frames))
      J == {i \in 1..Len(f1) : f1[i].fn = "runtime.main"}
  IN IF J = {} THEN f1 ELSE SubSeq(f1, 1, (CHOOSE x \in J : \A y \in J : x >= y) - 1)
trimFrames(frames) ==
  LET I == {i \in 1..Len(frames) : frames[i].fn = "runtime.gopanic"}
      f1 == IF I = {} THEN frames ELSE SubSeq(frames, Min(I) + 1, Len(frames))
      J == {i \in 1..Len(f1) : f1[i].fn = "runtime.main"}
  IN IF J = {} THEN f1 ELSE SubSeq(f1, 1, Min(J) - 1)

\* "Invert frames in place."
InvertNone(frames) == frames
Invert(frames) == Reverse(frames)

\* fmt.Sprintf("PANIC: %s:%d %s()", frame.File, frame.Line, frame.Function)
Traces(frames) ==
  [i \in 1..Len(frames) |-> Line("PANIC", frames[i].file, frames[i].line, frames[i].fn, <<>>)]

\* The payload of the panic the runtime raises for panic(nil).
PanicNil == StringValue("panic called with nil argument")

\* FromPanic(p), called with go stack st (ending with the caller's frame):
\* what it returns, and the payload it panics with (Nil: it returns).
FromPanicSwallow(st, p, id) ==
  IF p = Nil \/ ~IsAnnotatedError(p) THEN [ret |-> Nil, panic |-> Nil]
  ELSE LET pc == Callers(st \o <<FrFromPanic, FrCallers>>, 3, PcLen)
           traces == Traces(Invert(trimFrames(pc)))
       IN IF Len(pc) = 0 \/ Len(traces) = 0 THEN [ret |-> p, panic |-> Nil]
          ELSE [ret |-> annotatedError(p, traces, id), panic |-> Nil]
FromPanicNoNilCheck(st, p, id) ==
  IF IsAnnotatedError(p)
  THEN LET pc == Callers(st \o <<FrFromPanic, FrCallers>>, 3, PcLen)
           traces == Traces(Invert(trimFrames(pc)))
       IN IF Len(pc) = 0 \/ Len(traces) = 0 THEN [ret |-> p, panic |-> Nil]
          ELSE [ret |-> annotatedError(p, traces, id), panic |-> Nil]
  ELSE [ret |-> Nil, panic |-> IF p = Nil THEN PanicNil ELSE p]
FromPanicAlwaysWrap(st, p, id) ==
  IF p = Nil THEN [ret |-> Nil, panic |-> Nil]
  ELSE IF IsAnnotatedError(p)
  THEN LET pc == Callers(st \o <<FrFromPanic, FrCallers>>, 3, PcLen)
           traces == Traces(Invert(trimFrames(pc)))
       IN [ret |-> annotatedError(p, traces, id), panic |-> Nil]
  ELSE [ret |-> Nil, panic |-> p]
FromPanic(st, p, id) ==
  IF p = Nil THEN [ret |-> Nil, panic |-> Nil]
  ELSE IF IsAnnotatedError(p)
  THEN LET pc == Callers(st \o <<FrFromPanic, FrCallers>>, 3, PcLen)
           traces == Traces(Invert(trimFrames(pc)))
       IN IF Len(pc) = 0 THEN [ret |-> p, panic |-> Nil]
          ELSE IF Len(traces) = 0 THEN [ret |-> p, panic |-> Nil]
          ELSE [ret |-> annotatedError(p, traces, id), panic |-> Nil]
  ELSE [ret |-> Nil, panic |-> p]

\* ------------------------------------------------------------- chain search
\* Is(err, target): errors.Is over the Unwrap chain, comparing with ==.
RECURSIVE Is(_, _)
Is(e, target) ==
  IF e = Nil \/ target = Nil THEN e = target
  ELSE IF e = target THEN TRUE
  ELSE LET u == Unwrap(e) IN IF u = Nil THEN FALSE ELSE Is(u, target)

\* As(err, &slot) with slot of type kind: whether a value was found, and the
\* value stored in the slot.
RECURSIVE As(_, _)
As(e, kind) ==
  IF e = Nil THEN [ok |-> FALSE, val |-> Nil]
  ELSE IF Head(e).kind = kind THEN [ok |-> TRUE, val |-> e]
  ELSE As(Unwrap(e), kind)

\* ------------------------------------------------------------- state
VARIABLES
  stack,     \* the running goroutine's call stack, outermost first
  deferred,  \* indices of the stack frames whose deferred recovery is pending
  err,       \* the error value the running code holds
  payload,   \* the payload of the panic in flight (Nil: none)
  nextId,    \* number of the next node allocation
  crashed,   \* the payload the goroutine died with (Nil: it did not)
  op,        \* the operation executed last
  pc,        \* a captured frame list, innermost first
  frames,    \* the frame list made of pc, as trimmed and inverted so far
  tphase     \* how far the processing of frames has got

vars == <<stack, deferred, err, payload, nextId, crashed, op, pc, pc, frames, tphase>>

\* The format strings and arguments the program uses.
Inputs ==
  { [s |-> <<"because">>, a |-> <<>>],
    [s |-> <<"error in ", "%s">>, a |-> <<"fnC">>] }

Skips == 2..MaxSkip

Max(S) == CHOOSE x \in S : \A y \in S : x >= y

Top(st) == st[Len(st)]
IsUser(fr) == fr.file = "errors_test.go"
UserDepth == Cardinality({i \in 1..Len(stack) : IsUser(stack[i])})
Running == payload = Nil /\ stack # <<>>
\* The allocation counter after a call that returned r.
Alloc(r) == IF IsAnnotatedError(r) /\ Head(r).id = nextId THEN nextId + 1 ELSE nextId

Init ==
  /\ stack \in Bases
  /\ deferred = {}
  /\ err = Nil
  /\ payload = Nil
  /\ nextId = 1
  /\ crashed = Nil
  /\ op = "init"
  /\ pc = <<>>
  /\ frames = <<>>
  /\ tphase = "idle"

\* The running function calls user function f.
Call(f) ==
  /\ Running /\ UserDepth < MaxDepth /\ Calls(Top(stack), f)
  /\ stack' = Append(stack, UserFrame(f))
  /\ deferred' = IF Defers(f) THEN deferred \cup {Len(stack) + 1} ELSE deferred
  /\ op' = "Call"
  /\ UNCHANGED <<err, payload, nextId, crashed, pc, frames, tphase>>

\* The running user function returns; a pending deferred closure runs
\* err = FromPanic(recover()) with recover() = nil.
Return ==
  /\ Running /\ IsUser(Top(stack))
  /\ op' = "Return"
  /\ IF Len(stack) \in deferred
     THEN LET r == FromPanic(stack \o <<FrClosure>>, Nil, nextId)
          IN IF r.panic = Nil
             THEN /\ stack' = SubSeq(stack, 1, Len(stack) - 1)
                  /\ err' = r.ret
                  /\ payload' = Nil
                  /\ deferred' = deferred \ {Len(stack)}
             ELSE /\ stack' = stack \o <<FrClosure, FrFromPanicRaise>>
                  /\ err' = err
                  /\ payload' = r.panic
                  /\ deferred' = deferred \ {Len(stack)}
     ELSE /\ stack' = SubSeq(stack, 1, Len(stack) - 1)
          /\ UNCHANGED <<err, payload, deferred>>
  /\ UNCHANGED <<nextId, crashed, pc, frames, tphase>>

\* err = Reason(s, args...)
DoReason(in) ==
  /\ Running /\ nextId <= MaxNodes /\ err = Nil
  /\ err' = Reason(stack, in.s, in.a, nextId)
  /\ nextId' = Alloc(err')
  /\ op' = "Reason"
  /\ UNCHANGED <<stack, deferred, payload, crashed, pc, frames, tphase>>

\* err = ReasonStack(d, s, args...)
DoReasonStack(d, in) ==
  /\ Running /\ nextId <= MaxNodes /\ err = Nil
  /\ err' = ReasonStack(stack, d, in.s, in.a, nextId)
  /\ nextId' = Alloc(err')
  /\ op' = "ReasonStack"
  /\ UNCHANGED <<stack, deferred, payload, crashed, pc, frames, tphase>>

\* err = Annotate(err, s, args...)
DoAnnotate(in) ==
  /\ Running /\ nextId <= MaxNodes
  /\ err' = Annotate(stack, err, in.s, in.a, nextId)
  /\ nextId' = Alloc(err')
  /\ op' = "Annotate"
  /\ UNCHANGED <<stack, deferred, payload, crashed, pc, frames, tphase>>

\* err = AnnotateStack(err, d, s, args...)
DoAnnotateStack(d, in) ==
  /\ Running /\ nextId <= MaxNodes
  /\ err' = AnnotateStack(stack, err, d, in.s, in.a, nextId)
  /\ nextId' = Alloc(err')
  /\ op' = "AnnotateStack"
  /\ UNCHANGED <<stack, deferred, payload, crashed, pc, frames, tphase>>

\* err = myError("mine")
NewMyError ==
  /\ Running /\ err = Nil
  /\ err' = myError("mine")
  /\ op' = "myError"
  /\ UNCHANGED <<stack, deferred, payload, nextId, crashed, pc, frames, tphase>>

\* ReasonPanic(s, args...)
DoReasonPanic(in) ==
  /\ Running /\ nextId <= MaxNodes
  /\ payload' = ReasonPanic(stack, in.s, in.a, nextId)
  /\ stack' = stack \o <<FrReasonPanic>>
  /\ nextId' = Alloc(payload')
  /\ op' = "ReasonPanic"
  /\ UNCHANGED <<deferred, err, crashed, pc, frames, tphase>>

\* panic(err)
PanicErr ==
  /\ Running /\ err # Nil /\ nextId <= MaxNodes
  /\ payload' = err
  /\ op' = "panic"
  /\ UNCHANGED <<stack, deferred, err, nextId, crashed, pc, frames, tphase>>

\* panic("panic in fnC")
PanicString ==
  /\ Running
  /\ payload' = StringValue("panic in fnC")
  /\ op' = "panic"
  /\ UNCHANGED <<stack, deferred, err, nextId, crashed, pc, frames, tphase>>

\* The runtime, unwinding, runs the innermost pending deferred closure:
\* err = FromPanic(recover()).  When FromPanic returns, the deferring function
\* returns err to its caller; when it panics, the unwinding goes on.
RunDeferred ==
  /\ payload # Nil /\ deferred # {}
  /\ LET k == Max(deferred)
         r == FromPanic(stack \o <<FrGopanic, FrClosure>>, payload, nextId)
     IN IF r.panic = Nil
        THEN /\ stack' = SubSeq(stack, 1, k - 1)
             /\ deferred' = {i \in deferred : i < k}
             /\ err' = r.ret
             /\ payload' = Nil
             /\ nextId' = Alloc(r.ret)
        ELSE /\ stack' = stack \o <<FrGopanic, FrClosure, FrFromPanicRaise>>
             /\ deferred' = deferred \ {k}
             /\ err' = err
             /\ payload' = r.panic
             /\ nextId' = nextId
  /\ op' = "FromPanic"
  /\ UNCHANGED <<crashed, pc, frames, tphase>>

\* No deferred closure is left: the panic ends the goroutine.
Crash ==
  /\ payload # Nil /\ deferred = {}
  /\ crashed' = payload
  /\ payload' = Nil
  /\ stack' = <<>>
  /\ op' = "crash"
  /\ UNCHANGED <<deferred, err, nextId, pc, frames, tphase>>

\* err = FromPanic(err), called by the running function outside any panic.
DirectFromPanic ==
  /\ Running /\ nextId <= MaxNodes
  /\ LET r == FromPanic(stack, err, nextId)
     IN IF r.panic = Nil
        THEN /\ err' = r.ret
             /\ nextId' = Alloc(r.ret)
             /\ UNCHANGED <<stack, payload>>
        ELSE /\ payload' = r.panic
             /\ stack' = stack \o <<FrFromPanicRaise>>
             /\ UNCHANGED <<err, nextId>>
  /\ op' = "FromPanicDirect"
  /\ UNCHANGED <<deferred, crashed, pc, frames, tphase>>

\* go f(err): the model follows the new goroutine.
Spawn ==
  /\ Running /\ stack # GoBase
  /\ stack' = GoBase
  /\ deferred' = {}
  /\ op' = "go"
  /\ UNCHANGED <<err, payload, nextId, crashed, pc, frames, tphase>>

Next ==
  \/ \E f \in UserFns : Call(f)
  \/ Return
  \/ \E in \in Inputs : DoReason(in)
  \/ \E d \in Skips, in \in Inputs : DoReasonStack(d, in)
  \/ \E in \in Inputs : DoAnnotate(in)
  \/ \E d \in Skips, in \in Inputs : DoAnnotateStack(d, in)
  \/ NewMyError
  \/ \E in \in Inputs : DoReasonPanic(in)
  \/ PanicErr
  \/ PanicString
  \/ RunDeferred
  \/ Crash
  \/ DirectFromPanic
  \/ Spawn

Spec == Init /\ [][Next]_vars

\* ------------------------------------------------------------- frame lists
\* The processing of a captured frame list on its own: FromPanic's lines
\* from trimFrames to the inversion, and the call of trimFrames alone.
FrameSet ==
  {FrGopanic, FrMain, Fr("errors_test.go", 1, "aa"), Fr("errors_test.go", 2, "bb")}
FrameLists == UNION {[1..n -> FrameSet] : n \in 0..MaxFrames}

InitTrim ==
  /\ pc \in FrameLists
  /\ frames = pc
  /\ tphase = "captured"
  /\ stack = <<>>
  /\ deferred = {}
  /\ err = Nil
  /\ payload = Nil
  /\ nextId = 1
  /\ crashed = Nil
  /\ op = "init"

\* frames = trimFrames(frames), then "Invert frames in place".
TrimInvert ==
  /\ tphase = "captured"
  /\ frames' = Invert(trimFrames(frames))
  /\ tphase' = "inverted"
  /\ UNCHANGED <<stack, deferred, err, payload, nextId, crashed, op, pc>>

\* trimFrames(frames), as called on its own.
TrimOnly ==
  /\ tphase = "captured"
  /\ frames' = trimFrames(frames)
  /\ tphase' = "trimmed"
  /\ UNCHANGED <<stack, deferred, err, payload, nextId, crashed, op, pc>>

NextTrim == TrimInvert \/ TrimOnly

SpecTrim == InitTrim /\ [][NextTrim]_vars

\* ------------------------------------------------------------- properties
Suffix(s, i) == SubSeq(s, i, Len(s))
LastN(s, n) == IF Len(s) > n THEN SubSeq(s, Len(s) - n + 1, Len(s)) ELSE s
\* The frame a node's one-line message is located at.
Loc(e) == Fr(Head(e).curr[1].file, Head(e).curr[1].line, Head(e).curr[1].fn)
ErrorLine(fr, in) == Line("ERROR", fr.file, fr.line, fr.fn, Sprintf(in.s, in.a))
PanicLine(fr) == Line("PANIC", fr.file, fr.line, fr.fn, <<>>)
RECURSIVE Concat(_)
Concat(ss) == IF ss = <<>> THEN <<>> ELSE Head(ss) \o Concat(Tail(ss))
IsTrace(node) == node.kind = "annotatedError" /\ node.curr[1].tag = "PANIC"
AllSkips == 0..(MaxSkip + 2)

\* C1: Annotate(nil, ...) and AnnotateStack(nil, depth, ...) return nil for
\* every format, argument list and depth; the program's calls of them on a nil
\* error leave it nil, allocate no node and raise no panic.
C1_AnnotateNil ==
  [][ /\ \A in \in Inputs : Annotate(stack, Nil, in.s, in.a, nextId) = Nil
      /\ \A in \in Inputs, d \in AllSkips :
           AnnotateStack(stack, Nil, d, in.s, in.a, nextId) = Nil
      /\ (op' \in {"Annotate", "AnnotateStack"} /\ err = Nil)
           => (err' = Nil /\ nextId' = nextId /\ payload' = Nil /\ crashed' = crashed)
    ]_vars
C1_Witness == op = "AnnotateStack" /\ err = Nil /\ IsUser(Top(stack))

\* C2: the rendering of Annotate(e, ...) for a non-nil e is the new node's
\* located message followed by the whole rendering of e; a node without
\* predecessor renders as its message; a chain renders one message per node,
\* newest first.
C2_RenderNewestFirst ==
  [][ /\ (op' = "Annotate" /\ err # Nil) =>
           \E in \in Inputs :
             Error(err') = <<ErrorLine(Top(stack), in)>> \o Error(err)
      /\ (err' # Nil /\ Tail(err') = Nil) => Error(err') = Head(err').curr
      /\ err' # Nil => Error(err') = Concat([i \in 1..Len(err') |-> err'[i].curr])
    ]_vars
C2_Witness == op = "Annotate" /\ Len(err) >= 3 /\ IsUser(Top(stack))

\* C3: FromPanic, given a non-nil payload that is not a chain node, returns
\* nothing and panics with the same payload, which goes on propagating until
\* it ends the goroutine.
C3_ForeignRepanics ==
  [][ /\ (payload # Nil /\ ~IsAnnotatedError(payload) /\ op' = "FromPanic")
           => (payload' = payload /\ err' = err /\ nextId' = nextId)
      /\ (err # Nil /\ ~IsAnnotatedError(err) /\ op' = "FromPanicDirect")
           => (payload' = err /\ err' = err /\ nextId' = nextId)
      /\ (payload # Nil /\ ~IsAnnotatedError(payload))
           => (payload' = payload \/ (op' = "crash" /\ crashed' = payload))
    ]_vars
C3_Witness ==
  op = "FromPanic" /\ payload = StringValue("panic in fnC") /\ deferred = {}

\* The frames of the stack st at a ReasonPanic (the frame of ReasonPanic on
\* top) that FromPanic lists: the innermost PcLen - 1 frames (the first
\* captured frame is runtime.gopanic), from the one after runtime.main on.
Listed(st) ==
  LET w == LastN(st, PcLen - 1)
      M == {i \in 1..Len(w) : w[i].fn = "runtime.main"}
  IN IF M = {} THEN w ELSE Suffix(w, Max(M) + 1)
\* The call path from the recovering function to the abort site.
Path(st, k) == SubSeq(st, k, Len(st) - 1)
RecoversReasonPanic ==
  /\ op' = "FromPanic" /\ IsAnnotatedError(payload)
  /\ Top(stack) = FrReasonPanic /\ deferred # {}

\* C4 as stated: the trace has exactly N lines, the functions of the call
\* path, the recovering function first and the abort site last.
C4_Original ==
  [][ RecoversReasonPanic =>
        Head(err').curr = [i \in 1..Len(Path(stack, Max(deferred))) |->
                             PanicLine(Path(stack, Max(deferred))[i])]
    ]_vars
\* C4 as amended: the trace lists, outermost first, the innermost PcLen - 1
\* frames below runtime.gopanic that lie above runtime.main: the callers of
\* the recovering function, the N functions of the call path and, last, the
\* frame of ReasonPanic.
C4_Amended ==
  [][ RecoversReasonPanic =>
        LET tr == Head(err').curr
            path == Path(stack, Max(deferred))
            n == Len(path)
        IN /\ tr = [i \in 1..Len(Listed(stack)) |-> PanicLine(Listed(stack)[i])]
           /\ tr[Len(tr)] = PanicLine(FrReasonPanic)
           /\ Len(tr) <= PcLen - 1
           /\ n + 1 <= PcLen - 1 =>
                /\ Len(tr) >= n + 1
                /\ SubSeq(tr, Len(tr) - n, Len(tr) - 1) = [i \in 1..n |-> PanicLine(path[i])]
    ]_vars
C4_Witness ==
  /\ op = "FromPanic" /\ err # Nil /\ IsTrace(Head(err))
  /\ Len(Head(err).curr) = PcLen - 1
  /\ Head(err).curr[PcLen - 1] = PanicLine(FrReasonPanic)
  /\ Head(err).curr[PcLen - 2] = PanicLine(UserFrame("fnC"))

\* The scenario: A recovers, A calls B, B calls C, and C calls
\* ReasonPanic("error in %s", "fnC").
ScenarioABC ==
  /\ RecoversReasonPanic
  /\ Len(stack) >= 5
  /\ SubSeq(stack, Len(stack) - 3, Len(stack) - 1)
       = <<UserFrame("fnA"), UserFrame("fnB"), UserFrame("fnC")>>
  /\ Max(deferred) = Len(stack) - 3
  /\ Head(payload).curr[1].text = <<"error in ", "fnC">>
LineOfC ==
  ErrorLine(UserFrame("fnC"), [s |-> <<"error in ", "%s">>, a |-> <<"fnC">>])
TraceABC ==
  <<PanicLine(UserFrame("fnA")), PanicLine(UserFrame("fnB")), PanicLine(UserFrame("fnC"))>>

\* C5 as stated: the rendering is the original error's line and after it a
\* trace block of the three lines A, B, C.
C5_Original ==
  [][ ScenarioABC => Error(err') = <<LineOfC>> \o TraceABC ]_vars
\* C5 as amended: the rendering is the trace block first (the lines of A's
\* callers, then A, B, C and ReasonPanic) and the original error's line last.
C5_Amended ==
  [][ ScenarioABC =>
        LET r == Error(err')
            n == Len(r)
        IN /\ n >= 5
           /\ r[n] = LineOfC
           /\ SubSeq(r, n - 4, n - 1) = TraceABC \o <<PanicLine(FrReasonPanic)>>
           /\ \A i \in 1..(n - 5) :
                /\ r[i].tag = "PANIC"
                /\ \E j \in 1..(Len(stack) - 4) : r[i] = PanicLine(stack[j])
    ]_vars
C5_Witness ==
  /\ op = "FromPanic" /\ Len(err) = 2 /\ IsTrace(Head(err))
  /\ err[2].curr = <<LineOfC>>
  /\ Len(Head(err).curr) = 5
  /\ SubSeq(Head(err).curr, 2, 4) = TraceABC
  /\ stack = MainBase

\* C6: the node made by Reason, by Annotate of a non-nil error and by
\* ReasonPanic is located at the frame of the function that called it.
C6_CallerLocation ==
  [][ /\ op' = "Reason" => Loc(err') = Top(stack)
      /\ (op' = "Annotate" /\ err # Nil) => Loc(err') = Top(stack)
      /\ op' = "ReasonPanic" => Loc(payload') = Top(stack)
    ]_vars
C6_Witness ==
  /\ op = "ReasonPanic" /\ Loc(payload) = UserFrame("fnC")
  /\ stack[Len(stack) - 1] = UserFrame("fnC") /\ stack[Len(stack) - 2] = UserFrame("fnB")

\* C7: every error of a chain, down to the one it was built on, is found by
\* Is from the outermost node, and As finds a value of the innermost error's
\* type (that error itself when it is not a chain node), through annotation
\* nodes and trace nodes alike.
C7_IsAsTraverse ==
  err # Nil =>
    /\ \A i \in 1..Len(err) : Is(err, Suffix(err, i))
    /\ LET root == Suffix(err, Len(err))
           got == As(err, Head(root).kind)
       IN /\ got.ok
          /\ Head(got.val).kind = Head(root).kind
          /\ Head(root).kind = "myError" => got.val = root
C7_Witness ==
  /\ Len(err) = 3 /\ IsTrace(err[1])
  /\ err[2].kind = "annotatedError" /\ err[2].curr[1].tag = "ERROR"
  /\ err[3].kind = "myError"

\* C8: when a function that defers err = FromPanic(recover()) returns without
\* a panic, FromPanic gets nil and returns nil: no node is made, no panic is
\* raised, and the function's result is nil.
C8_NoPanicNil ==
  [][ (op' = "Return" /\ Len(stack) \in deferred) =>
        /\ err' = Nil /\ payload' = Nil /\ nextId' = nextId
        /\ stack' = SubSeq(stack, 1, Len(stack) - 1)
        /\ FromPanic(stack \o <<FrClosure>>, Nil, nextId) = [ret |-> Nil, panic |-> Nil]
    ]_vars
C8_Witness == op = "Return" /\ err = Nil /\ nextId > 1 /\ ~IsUser(Top(stack))

\* What the claim keeps of a frame list: what follows the first
\* runtime.gopanic, up to the first runtime.main after it.
FirstGopanic(fs) ==
  IF \E i \in 1..Len(fs) : fs[i].fn = "runtime.gopanic"
  THEN Min({i \in 1..Len(fs) : fs[i].fn = "runtime.gopanic"}) ELSE 0
FirstMainAfter(fs, g) ==
  IF \E i \in (g + 1)..Len(fs) : fs[i].fn = "runtime.main"
  THEN Min({i \in (g + 1)..Len(fs) : fs[i].fn = "runtime.main"}) ELSE Len(fs) + 1
Kept(fs) == SubSeq(fs, FirstGopanic(fs) + 1, FirstMainAfter(fs, FirstGopanic(fs)) - 1)
HasFn(fs, fn) == \E i \in 1..Len(fs) : fs[i].fn = fn

\* C9: the frame trimmer keeps the frames after the first runtime.gopanic and
\* before the first runtime.main of that remainder, leaves a side alone whose
\* marker is absent, and puts what it keeps in reverse order.
C9_FrameTrimmer ==
  tphase = "inverted" =>
    /\ frames = Reverse(Kept(pc))
    /\ (~HasFn(pc, "runtime.gopanic") /\ ~HasFn(pc, "runtime.main")) => frames = Reverse(pc)
    /\ (HasFn(pc, "runtime.gopanic") /\ FirstMainAfter(pc, FirstGopanic(pc)) <= Len(pc)) =>
         /\ Len(frames) = FirstMainAfter(pc, FirstGopanic(pc)) - FirstGopanic(pc) - 1
         /\ \A i \in 1..Len(frames) :
              frames[i] = pc[FirstMainAfter(pc, FirstGopanic(pc)) - i]
    /\ ~HasFn(pc, "runtime.gopanic") => \A i \in 1..Len(frames) : frames[i] = pc[Len(frames) + 1 - i]
    /\ ~HasFn(frames, "runtime.main")
C9_Witness ==
  /\ tphase = "inverted" /\ Len(pc) = 4
  /\ pc[1].fn = "runtime.gopanic" /\ pc[4].fn = "runtime.main"
  /\ frames = <<pc[3], pc[2]>> /\ pc[2] # pc[3]

\* No frame is left for the trace of a FromPanic called with go stack st.
NoUsableFrame(st) == trimFrames(Callers(st \o <<FrFromPanic, FrCallers>>, 3, PcLen)) = <<>>

\* The captured frame lists of which trimFrames leaves nothing.
TrimmedAway == {fs \in FrameLists : trimFrames(fs) = <<>>}

\* C10: FromPanic, given a chain node and left without a frame for the trace,
\* returns that very node: no trace node, no panic, not nil.  The last
\* conjunct puts FromPanic on the stacks whose capture is a frame list that
\* trims to nothing (runtime.gopanic last, or followed at once by
\* runtime.main).
C10_NoFrames ==
  [][ /\ (op' = "FromPanicDirect" /\ IsAnnotatedError(err) /\ NoUsableFrame(stack))
           => (err' = err /\ payload' = Nil /\ nextId' = nextId)
      /\ (op' = "FromPanic" /\ IsAnnotatedError(payload)
            /\ NoUsableFrame(stack \o <<FrGopanic, FrClosure>>))
           => (err' = payload /\ payload' = Nil /\ nextId' = nextId)
      /\ (op' = "FromPanicDirect" /\ IsAnnotatedError(err) /\ stack \in Bases) =>
           \A fs \in TrimmedAway :
             FromPanic(Reverse(fs) \o <<Top(stack)>>, err, nextId)
               = [ret |-> err, panic |-> Nil]
    ]_vars
C10_Witness ==
  /\ op = "FromPanicDirect" /\ IsAnnotatedError(err) /\ ~IsTrace(Head(err))
  /\ stack = MainBase /\ payload = Nil

====
